---- MODULE Spec2Model ----
(***************************************************************************)
(* A model of CSV_Program.py: the stopword reader, the lyric tokenizer,    *)
(* the artist -> song -> word-set index built by read_data, the per-artist *)
(* statistics, the top-10 ranking table and the interactive search loop.   *)
(*                                                                         *)
(* Strings are sequences of one-character strings.  Python dictionaries    *)
(* keep insertion order, so a dictionary is a sequence of entries.  Python *)
(* sets are mutable objects held by reference, so a word set is an address *)
(* into `heap` and every set mutation is a heap update.                    *)
(***************************************************************************)
EXTENDS Integers, Sequences, FiniteSets, TLC

VARIABLES
    pc,             \* position of main(): which statement runs next, or the name of
                    \* the exception that ended the program
    stopwords,      \* main's stopwords (set of strings)
    rows_read,      \* the data rows csv.reader has yielded so far, in order
    data_dict,      \* the index: sequence of [singer, songs], songs a sequence of [song, ref]
    heap,           \* the set objects allocated so far: address -> set of words
    average_words,  \* result of calculate_average_word_count
    distinct_vocab, \* result of find_singers_vocab: sequence of [singer, ref]
    singers_list,   \* main's combined list of (singer, average, vocab_size, song_total)
    table,          \* the rows display_singers printed, each a 4-tuple of columns
    user_input,     \* the line the last input() call returned
    user_set,       \* main's user_set for that line
    searched_list,  \* the list the last search_songs call returned
    message,        \* what the last loop iteration printed: "none", "error", "count", "results"
    invoked,        \* TRUE iff the last loop iteration called search_songs
    retok           \* process_lyrics of the joined words of process_lyrics(lyrics)

vars == <<pc, stopwords, rows_read, data_dict, heap, average_words, distinct_vocab,
          singers_list, table, user_input, user_set, searched_list, message,
          invoked, retok>>

(***************************************************************************)
(* Bounds of the model.                                                    *)
(***************************************************************************)
\* Largest number of data rows of the song file in the full-program runs.
MaxRows == 3
\* Longest lyrics text of the tokenizer runs, in characters.
MaxLen == 4

(***************************************************************************)
(* Characters and the str methods the program uses.                        *)
(***************************************************************************)
\* Whitespace characters: what str.split() and str.strip() treat as blank.
Whitespace == {" ", "\n"}

\* Members of string.punctuation that occur in the modelled texts.
Punctuation == {".", "'"}

\* Code point of a character (ord), which orders strings.
Ord(c) ==
    CASE c = "\n" -> 10
      [] c = " "  -> 32
      [] c = "'"  -> 39
      [] c = "."  -> 46
      [] c = "1"  -> 49
      [] c = "A"  -> 65
      [] c = "B"  -> 66
      [] c = "a"  -> 97
      [] c = "b"  -> 98
      [] c = "c"  -> 99

\* str.isalpha on one character.
IsAlphaChar(c) == c \in {"A", "B", "a", "b", "c"}

\* str.lower on one character.
LowerChar(c) ==
    CASE c = "A" -> "a"
      [] c = "B" -> "b"
      [] OTHER   -> c

\* str.lower
lower(s) == [i \in 1..Len(s) |-> LowerChar(s[i])]

\* str.isalpha: False on the empty string.
isalpha(s) == Len(s) > 0 /\ \A i \in 1..Len(s) : IsAlphaChar(s[i])

RECURSIVE lstrip(_, _)
lstrip(s, chars) ==
    IF s # <<>> /\ Head(s) \in chars THEN lstrip(Tail(s), chars) ELSE s

RECURSIVE rstrip(_, _)
rstrip(s, chars) ==
    IF s # <<>> /\ s[Len(s)] \in chars
    THEN rstrip(SubSeq(s, 1, Len(s) - 1), chars)
    ELSE s

\* str.strip(chars); str.strip() is strip(s, Whitespace).
strip(s, chars) == rstrip(lstrip(s, chars), chars)

\* Longest prefix of s without whitespace.
RECURSIVE TakeWord(_)
TakeWord(s) ==
    IF s = <<>> \/ Head(s) \in Whitespace THEN <<>>
    ELSE <<Head(s)>> \o TakeWord(Tail(s))

\* str.split(): the maximal runs of non-whitespace characters, in order.
RECURSIVE split(_)
split(s) ==
    LET t == lstrip(s, Whitespace)
        w == TakeWord(t)
    IN  IF t = <<>> THEN <<>>
        ELSE <<w>> \o split(SubSeq(t, Len(w) + 1, Len(t)))

\* sep.join(words) with sep one space.
RECURSIVE join(_)
join(words) ==
    IF words = <<>> THEN <<>>
    ELSE IF Len(words) = 1 THEN words[1]
    ELSE words[1] \o <<" ">> \o join(Tail(words))

\* s < t for Python strings: lexicographic by code point, a proper prefix first.
RECURSIVE StrLess(_, _)
StrLess(s, t) ==
    IF t = <<>> THEN FALSE
    ELSE IF s = <<>> THEN TRUE
    ELSE IF Ord(Head(s)) # Ord(Head(t)) THEN Ord(Head(s)) < Ord(Head(t))
    ELSE StrLess(Tail(s), Tail(t))

(***************************************************************************)
(* Stopwords and the tokenizer.                                            *)
(***************************************************************************)
\* read_stopwords: one stopword per line, lowercased then stripped.
read_stopwords(fp) == {strip(lower(fp[i]), Whitespace) : i \in 1..Len(fp)}

\* Faulty variant of validate_word: the isalpha test is missing.
validate_word_no_alpha(word, stops) == word \notin stops

validate_word(word, stops) == word \notin stops /\ isalpha(word)

\* Faulty variant of process_lyrics: the stopword test is made on the token
\* before its punctuation is stripped.
process_lyrics_early_check(lyrics, stops) ==
    LET tokens == split(lyrics)
        word_list == [i \in 1..Len(tokens) |->
                        strip(strip(lower(tokens[i]), Whitespace), Punctuation)]
    IN  {word_list[i] : i \in {j \in 1..Len(word_list) :
                                  /\ strip(lower(tokens[j]), Whitespace) \notin stops
                                  /\ isalpha(word_list[j])}}

process_lyrics(lyrics, stops) ==
    LET tokens == split(lyrics)
        word_list == [i \in 1..Len(tokens) |->
                        strip(strip(lower(tokens[i]), Whitespace), Punctuation)]
    IN  {word_list[i] : i \in {j \in 1..Len(word_list) : validate_word(word_list[j], stops)}}

(***************************************************************************)
(* Dictionaries (insertion-ordered) and the index.                         *)
(***************************************************************************)
\* singer in data_dict
HasSinger(d, singer) == \E i \in 1..Len(d) : d[i].singer = singer

\* Position of singer's entry in the dictionary.
SingerPos(d, singer) == CHOOSE i \in 1..Len(d) : d[i].singer = singer

\* Faulty variant of dict_update: an existing key keeps its old value
\* (dict.setdefault).
dict_update_keep(songs, song, words) ==
    IF \E j \in 1..Len(songs) : songs[j].song = song
    THEN songs
    ELSE Append(songs, [song |-> song, ref |-> words])

\* dict.update({song: words}) on one singer's song dictionary: an existing key
\* keeps its position and gets the new value, a new key goes last.
dict_update(songs, song, words) ==
    IF \E j \in 1..Len(songs) : songs[j].song = song
    THEN [j \in 1..Len(songs) |->
            IF songs[j].song = song THEN [song |-> song, ref |-> words] ELSE songs[j]]
    ELSE Append(songs, [song |-> song, ref |-> words])

\* update_dictionary; `words` is the address of the row's word set.
update_dictionary(d, singer, song, words) ==
    IF ~HasSinger(d, singer)
    THEN Append(d, [singer |-> singer, songs |-> <<[song |-> song, ref |-> words]>>])
    ELSE [d EXCEPT ![SingerPos(d, singer)].songs = dict_update(@, song, words)]

(***************************************************************************)
(* Sorting.  sorted() is stable; with reverse=True the list is reversed,   *)
(* sorted stably and reversed again, which keeps equal keys in input order.*)
(***************************************************************************)
\* x < y on quotients.
FloatLess(x, y) == x.num * y.den < y.num * x.den

\* Faulty variant of RankKeyLess: key=itemgetter(1, 2), the vocabulary size
\* as second key.
RankKeyLess_vocab(s, t) ==
    \/ FloatLess(s[2], t[2])
    \/ s[2] = t[2] /\ s[3] < t[3]

\* key=itemgetter(1, 3): the tuple (t[1], t[3]) of a 0-based tuple t, compared
\* as Python compares tuples.
RankKeyLess(s, t) ==
    \/ FloatLess(s[2], t[2])
    \/ s[2] = t[2] /\ s[4] < t[4]

\* key=itemgetter(0, 1) on (singer, song_name) tuples.
PairLess(s, t) ==
    \/ StrLess(s[1], t[1])
    \/ s[1] = t[1] /\ StrLess(s[2], t[2])

\* Comparison of two list elements under the named key.
KeyLess(key, x, y) ==
    IF key = "itemgetter(1, 3)" THEN RankKeyLess(x, y) ELSE PairLess(x, y)

Reverse(s) == [i \in 1..Len(s) |-> s[Len(s) + 1 - i]]

\* x goes after every element that is not greater than it.
RECURSIVE InsertSorted(_, _, _)
InsertSorted(s, x, key) ==
    IF s = <<>> THEN <<x>>
    ELSE IF KeyLess(key, x, Head(s)) THEN <<x>> \o s
    ELSE <<Head(s)>> \o InsertSorted(Tail(s), x, key)

RECURSIVE StableSort(_, _)
StableSort(s, key) ==
    IF s = <<>> THEN <<>>
    ELSE InsertSorted(StableSort(SubSeq(s, 1, Len(s) - 1), key), s[Len(s)], key)

\* sorted(list, key=key, reverse=reverse)
sorted(list, key, reverse) ==
    IF reverse THEN Reverse(StableSort(Reverse(list), key)) ELSE StableSort(list, key)

(***************************************************************************)
(* Statistics.                                                             *)
(***************************************************************************)
RECURSIVE GCD(_, _)
GCD(a, b) == IF b = 0 THEN a ELSE GCD(b, a % b)

\* Faulty variant of Divide: floor division (//).
Divide_floor(a, b) == [num |-> a \div b, den |-> 1]

\* a / b, b > 0: the quotient as a fraction in lowest terms, so that two
\* quotients are the same value exactly when the two floats are equal.
Divide(a, b) == [num |-> a \div GCD(a, b), den |-> b \div GCD(a, b)]

\* word_total after the loop over songs.values().
RECURSIVE WordTotal(_, _)
WordTotal(songs, h) ==
    IF songs = <<>> THEN 0
    ELSE Cardinality(h[Head(songs).ref]) + WordTotal(Tail(songs), h)

\* The division raises ZeroDivisionError for a singer without songs.
ZeroDivision(d) == \E i \in 1..Len(d) : Len(d[i].songs) = 0

calculate_average_word_count(d, h) ==
    [i \in 1..Len(d) |->
        [singer  |-> d[i].singer,
         average |-> Divide(WordTotal(d[i].songs, h), Len(d[i].songs))]]

\* Faulty variant of NewUnionSet: union_set is the first song's own set.
NewUnionSet_alias(h, songs) == [heap |-> h, ref |-> songs[1].ref]

\* union_set = set(): a new empty set object.
NewUnionSet(h, songs) == [heap |-> Append(h, {}), ref |-> Len(h) + 1]

\* The loops over songs.values() and over each word_set: union_set.add(word).
RECURSIVE AddSongs(_, _, _)
AddSongs(h, u, songs) ==
    IF songs = <<>> THEN h
    ELSE AddSongs([h EXCEPT ![u] = @ \cup h[Head(songs).ref]], u, Tail(songs))

\* One pass of the loop over data_dict.items() per singer; union_set.union()
\* is one more new set object, holding the same words.
RECURSIVE VocabLoop(_, _, _)
VocabLoop(d, h, vocab) ==
    IF d = <<>> THEN [heap |-> h, vocab_dict |-> vocab]
    ELSE LET new == NewUnionSet(h, Head(d).songs)
             h2  == AddSongs(new.heap, new.ref, Head(d).songs)
             h3  == Append(h2, h2[new.ref])
         IN  VocabLoop(Tail(d), h3,
                       Append(vocab, [singer |-> Head(d).singer, ref |-> Len(h3)]))

find_singers_vocab(d, h) == VocabLoop(d, h, <<>>)

\* dictionary[singer] on average_words and distinct_vocab.
Lookup(dict, singer) == dict[CHOOSE i \in 1..Len(dict) : dict[i].singer = singer]

(***************************************************************************)
(* Ranking table.                                                          *)
(***************************************************************************)
\* The slice of display_singers.
TopN == 10

\* The column titles display_singers prints, left to right.
TableHeader == <<"Singer", "Average Word Count", "Vocabulary Size", "Number of Songs">>

\* main's loop building the list handed to display_singers.
combined_list(d, averages, vocab, h) ==
    [i \in 1..Len(d) |->
        LET singer     == d[i].singer
            song_total == Len(d[i].songs)
            vocab_size == Cardinality(h[Lookup(vocab, singer).ref])
        IN  <<singer, Lookup(averages, singer).average, vocab_size, song_total>>]

\* The rows display_singers prints; each row holds the four values in the
\* order of the format string.  (The {:.2f} rendering of the average is not
\* modelled: the row keeps the value.)
display_singers(list) ==
    LET sorted_list == sorted(list, "itemgetter(1, 3)", TRUE)
        shown == SubSeq(sorted_list, 1, IF Len(sorted_list) < TopN THEN Len(sorted_list) ELSE TopN)
    IN  [i \in 1..Len(shown) |->
            LET singer     == shown[i][1]
                avg_word   == shown[i][2]
                song_total == shown[i][3]
                vocab_size == shown[i][4]
            IN  <<singer, avg_word, song_total, vocab_size>>]

(***************************************************************************)
(* Search.                                                                 *)
(***************************************************************************)
\* Faulty variant of MatchSongs: a song matches when it has any of the words.
RECURSIVE MatchSongs_any(_, _, _, _)
MatchSongs_any(singer, songs, h, words) ==
    IF songs = <<>> THEN <<>>
    ELSE (IF words \cap h[Head(songs).ref] # {}
          THEN <<(<<singer, Head(songs).song>>)>> ELSE <<>>)
         \o MatchSongs_any(singer, Tail(songs), h, words)

\* The inner loop of search_songs over one singer's songs.
RECURSIVE MatchSongs(_, _, _, _)
MatchSongs(singer, songs, h, words) ==
    IF songs = <<>> THEN <<>>
    ELSE (IF words \subseteq h[Head(songs).ref]
          THEN <<(<<singer, Head(songs).song>>)>> ELSE <<>>)
         \o MatchSongs(singer, Tail(songs), h, words)

\* The outer loop: match_list before it is sorted.
RECURSIVE MatchList(_, _, _)
MatchList(d, h, words) ==
    IF d = <<>> THEN <<>>
    ELSE MatchSongs(Head(d).singer, Head(d).songs, h, words)
         \o MatchList(Tail(d), h, words)

\* Faulty variant of search_songs: the list is returned unsorted.
search_songs_unsorted(d, h, words) == MatchList(d, h, words)

search_songs(d, h, words) == sorted(MatchList(d, h, words), "itemgetter(0, 1)", FALSE)

\* Faulty variant of validate_set: one valid word is enough.
validate_set_any(word_set, stops) == \E word \in word_set : validate_word(word, stops)

validate_set(word_set, stops) == \A word \in word_set : validate_word(word, stops)

\* set(input(...).lower().split())
ParseInput(line) == LET tokens == split(lower(line)) IN {tokens[i] : i \in 1..Len(tokens)}

(***************************************************************************)
(* Inputs: the files and the typed lines the runs draw from.               *)
(***************************************************************************)
\* Artist and song names; "B" < "a" < "ab" < "b" by code point.
ArtistA == <<"a">>
ArtistB == <<"B">>
SongA   == <<"a", "b">>
SongB   == <<"b">>

\* Lyrics texts of the full-program runs: "a b", "A." and "b".
LyricsPool == {<<"a", " ", "b">>, <<"A", ".">>, <<"b">>}

\* csv rows with three fields.
WellFormedRows ==
    {<<k[1], k[2], l>> : k \in {<<ArtistA, SongB>>, <<ArtistA, SongA>>, <<ArtistB, SongB>>},
                         l \in LyricsPool}

\* csv rows with fewer or more than three fields.
ShortRow == <<ArtistA, SongB>>
LongRow  == <<ArtistB, SongA, <<"a", " ", "b">>, <<"b">>>>

Rows == WellFormedRows \cup {ShortRow, LongRow}

\* Stopword files, a sequence of lines each: the empty file and the file "B\n".
StopFiles == {<<>>, <<(<<"B", "\n">>)>>}

\* Lines typed at the prompt: "", " ", "a", "A b", "b", "a1" and "c".
Inputs == {<<>>, <<" ">>, <<"a">>, <<"A", " ", "b">>, <<"b">>, <<"a", "1">>, <<"c">>}

\* Tokenizer runs: every text of at most MaxLen characters over TokChars.
TokChars == {"a", "b", "A", "1", ".", " "}
Texts == UNION {[1..n -> TokChars] : n \in 0..MaxLen}
TokRows == {<<ArtistA, SongA, t>> : t \in Texts}
TokStopFiles == {<<>>, <<(<<"a", "\n">>)>>, <<(<<"B", "\n">>)>>,
                 <<(<<"a", "\n">>), <<" ", "b", "\n">>>>}

\* Ranking runs: up to TopN + 1 artists.  Artist k is named by k letters; an
\* odd artist has the song "a b" and possibly a second song "b a", an even
\* artist has one song, "a b" or "a".
RankArtists == TopN + 1
RankArtist(k) == [i \in 1..k |-> "a"]
RankRows(d) ==
    LET k == Len(d) + 1
    IN  (IF k > RankArtists THEN {}
         ELSE {<<RankArtist(k), SongA, l>> :
                 l \in IF k % 2 = 1 THEN {<<"a", " ", "b">>}
                       ELSE {<<"a", " ", "b">>, <<"a">>}})
        \cup
        (IF d # <<>> /\ Len(d) % 2 = 1 /\ Len(d[Len(d)].songs) = 1
         THEN {<<RankArtist(Len(d)), SongB, <<"b", " ", "a">>>>}
         ELSE {})

(***************************************************************************)
(* The program.                                                            *)
(***************************************************************************)
InitWith(files) ==
    /\ pc = "header"
    /\ stopwords \in {read_stopwords(f) : f \in files}
    /\ rows_read = <<>>
    /\ data_dict = <<>>
    /\ heap = <<>>
    /\ average_words = <<>>
    /\ distinct_vocab = <<>>
    /\ singers_list = <<>>
    /\ table = <<>>
    /\ user_input = <<>>
    /\ user_set = {}
    /\ searched_list = <<>>
    /\ message = "none"
    /\ invoked = FALSE
    /\ retok = {}

\* main after read_stopwords has returned and read_data has been entered.
Init == InitWith(StopFiles)

\* read_data: next(reader) discards the header; on an empty file it raises
\* StopIteration, which nothing catches.
SkipHeader ==
    /\ pc = "header"
    /\ \E empty \in BOOLEAN : pc' = IF empty THEN "StopIteration" ELSE "read"
    /\ UNCHANGED <<stopwords, rows_read, data_dict, heap, average_words, distinct_vocab,
                   singers_list, table, user_input, user_set, searched_list, message,
                   invoked, retok>>

\* read_data: one pass of the loop over the reader.  line[2] of a row with
\* fewer than three fields raises IndexError, which nothing catches.
ReadRowFrom(rows, limit) ==
    /\ pc = "read"
    /\ Len(rows_read) < limit
    /\ \E line \in rows :
        /\ rows_read' = Append(rows_read, line)
        /\ IF Len(line) < 3
           THEN /\ pc' = "IndexError"
                /\ UNCHANGED <<data_dict, heap>>
           ELSE LET word_set == process_lyrics(lower(line[3]), stopwords)
                IN  /\ heap' = Append(heap, word_set)
                    /\ data_dict' = update_dictionary(data_dict, line[1], line[2],
                                                      Len(heap) + 1)
                    /\ pc' = "read"
    /\ UNCHANGED <<stopwords, average_words, distinct_vocab, singers_list, table,
                   user_input, user_set, searched_list, message, invoked, retok>>

ReadRow == ReadRowFrom(Rows, MaxRows)

\* read_data: the reader is exhausted; fp.close() and return data_dict.
EndRead ==
    /\ pc = "read"
    /\ pc' = "average"
    /\ UNCHANGED <<stopwords, rows_read, data_dict, heap, average_words, distinct_vocab,
                   singers_list, table, user_input, user_set, searched_list, message,
                   invoked, retok>>

\* main: average_words = calculate_average_word_count(data_dict)
CalcAverage ==
    /\ pc = "average"
    /\ IF ZeroDivision(data_dict)
       THEN /\ pc' = "ZeroDivisionError"
            /\ UNCHANGED average_words
       ELSE /\ average_words' = calculate_average_word_count(data_dict, heap)
            /\ pc' = "vocab"
    /\ UNCHANGED <<stopwords, rows_read, data_dict, heap, distinct_vocab, singers_list,
                   table, user_input, user_set, searched_list, message, invoked, retok>>

\* main: distinct_vocab = find_singers_vocab(data_dict)
FindVocab ==
    /\ pc = "vocab"
    /\ LET r == find_singers_vocab(data_dict, heap)
       IN  /\ heap' = r.heap
           /\ distinct_vocab' = r.vocab_dict
    /\ pc' = "display"
    /\ UNCHANGED <<stopwords, rows_read, data_dict, average_words, singers_list, table,
                   user_input, user_set, searched_list, message, invoked, retok>>

\* main: build singers_list and call display_singers.
Display ==
    /\ pc = "display"
    /\ singers_list' = combined_list(data_dict, average_words, distinct_vocab, heap)
    /\ table' = display_singers(singers_list')
    /\ pc' = "prompt"
    /\ UNCHANGED <<stopwords, rows_read, data_dict, heap, average_words, distinct_vocab,
                   user_input, user_set, searched_list, message, invoked, retok>>

\* One pass of the search loop: the user presses enter on no word.
QueryExit ==
    /\ pc = "prompt"
    /\ \E line \in Inputs :
        /\ ParseInput(line) = {}
        /\ user_input' = line
        /\ user_set' = ParseInput(line)
    /\ pc' = "done"
    /\ invoked' = FALSE
    /\ message' = "none"
    /\ UNCHANGED <<stopwords, rows_read, data_dict, heap, average_words, distinct_vocab,
                   singers_list, table, searched_list, retok>>

\* One pass of the search loop: validate_set rejects the words.
QueryError ==
    /\ pc = "prompt"
    /\ \E line \in Inputs :
        /\ ParseInput(line) # {}
        /\ ~validate_set(ParseInput(line), stopwords)
        /\ user_input' = line
        /\ user_set' = ParseInput(line)
    /\ pc' = "prompt"
    /\ invoked' = FALSE
    /\ message' = "error"
    /\ UNCHANGED <<stopwords, rows_read, data_dict, heap, average_words, distinct_vocab,
                   singers_list, table, searched_list, retok>>

\* One pass of the search loop: the words are searched and the count printed,
\* followed by the first matches when there are any.
QuerySearch ==
    /\ pc = "prompt"
    /\ \E line \in Inputs :
        /\ ParseInput(line) # {}
        /\ validate_set(ParseInput(line), stopwords)
        /\ user_input' = line
        /\ user_set' = ParseInput(line)
    /\ searched_list' = search_songs(data_dict, heap, user_set')
    /\ invoked' = TRUE
    /\ message' = IF Len(searched_list') = 0 THEN "count" ELSE "results"
    /\ pc' = "prompt"
    /\ UNCHANGED <<stopwords, rows_read, data_dict, heap, average_words, distinct_vocab,
                   singers_list, table, retok>>

Next ==
    \/ SkipHeader
    \/ ReadRow
    \/ EndRead
    \/ CalcAverage
    \/ FindVocab
    \/ Display
    \/ QueryExit
    \/ QueryError
    \/ QuerySearch

Spec == Init /\ [][Next]_vars

(***************************************************************************)
(* Tokenizer runs: read_data on a file of one data row whose lyrics is any *)
(* text of Texts; then process_lyrics is applied to the row's lyrics, its  *)
(* words are joined in some order and the joined text is tokenized again.  *)
(***************************************************************************)
InitTok == InitWith(TokStopFiles)

TokReadRow == ReadRowFrom(TokRows, 1)

\* The sequences listing each element of the set once.
Orderings(S) ==
    {f \in [1..Cardinality(S) -> S] : \A i, j \in 1..Cardinality(S) : f[i] = f[j] => i = j}

Retokenize ==
    /\ pc = "read"
    /\ data_dict # <<>>
    /\ \E order \in Orderings(process_lyrics(rows_read[1][3], stopwords)) :
        retok' = process_lyrics(join(order), stopwords)
    /\ pc' = "retok"
    /\ UNCHANGED <<stopwords, rows_read, data_dict, heap, average_words, distinct_vocab,
                   singers_list, table, user_input, user_set, searched_list, message,
                   invoked>>

NextTok ==
    \/ SkipHeader
    \/ TokReadRow
    \/ Retokenize

SpecTok == InitTok /\ [][NextTok]_vars

(***************************************************************************)
(* Ranking runs: the program up to the ranking table, on song files with   *)
(* up to TopN + 1 artists.                                                 *)
(***************************************************************************)
InitRank == InitWith({<<>>})

RankReadRow == ReadRowFrom(RankRows(data_dict), 2 * RankArtists)

NextRank ==
    \/ SkipHeader
    \/ RankReadRow
    \/ EndRead
    \/ CalcAverage
    \/ FindVocab
    \/ Display

SpecRank == InitRank /\ [][NextRank]_vars

(***************************************************************************)
(* Properties.  The helpers below read the index directly, without using   *)
(* the operators of the program.                                           *)
(***************************************************************************)
Range(seq) == {seq[i] : i \in 1..Len(seq)}

\* read_data has returned its dictionary to main.
Returned == pc \in {"average", "vocab", "display", "prompt", "done"}

\* The (artist, song, WordSet) triples of an index.
Triples(d, h) ==
    UNION {{<<d[i].singer, d[i].songs[j].song, h[d[i].songs[j].ref]>> :
              j \in 1..Len(d[i].songs)} : i \in 1..Len(d)}

\* The (artist, song) keys of an index.
IndexPairs(d) ==
    UNION {{<<d[i].singer, d[i].songs[j].song>> : j \in 1..Len(d[i].songs)} :
             i \in 1..Len(d)}

\* The word set stored under the key p.
WordsOf(d, h, p) == (CHOOSE t \in Triples(d, h) : t[1] = p[1] /\ t[2] = p[2])[3]

Singers(d) == {d[i].singer : i \in 1..Len(d)}

\* The keys of one artist.
SongsOf(d, a) == {p \in IndexPairs(d) : p[1] = a}

\* Sum of the sizes of the word sets under the keys P.
RECURSIVE SumSizes(_, _, _)
SumSizes(d, h, P) ==
    IF P = {} THEN 0
    ELSE LET p == CHOOSE x \in P : TRUE
         IN  Cardinality(WordsOf(d, h, p)) + SumSizes(d, h, P \ {p})

\* Query word sets: every non-empty set of these words ("b" is a stopword in
\* some runs).
QueryWords == {<<"a">>, <<"b">>, <<"c">>}
Queries == (SUBSET QueryWords) \ {{}}

\* result lists exactly the keys whose word set includes Q, each once.
SearchContract(result, d, h, Q) ==
    /\ \A t \in Triples(d, h) : (<<t[1], t[2]>> \in Range(result)) <=> (Q \subseteq t[3])
    /\ Range(result) \subseteq IndexPairs(d)
    /\ \A i, j \in 1..Len(result) : result[i] = result[j] => i = j

\* C1: for every index read_data returns and every non-empty query word set
\* Q, search_songs lists (artist, song) iff it is a key of the index and
\* Q is a subset of its word set; no pair is listed twice and none is outside
\* the index.  The same holds of the list the search loop obtained.
C1_SearchListsExactlyTheSupersets ==
    /\ pc = "average" =>
         \A Q \in Queries :
            SearchContract(search_songs(data_dict, heap, Q), data_dict, heap, Q)
    /\ invoked => SearchContract(searched_list, data_dict, heap, user_set)

\* A search that found some songs and left others out.
C1_Witness ==
    /\ invoked
    /\ searched_list # <<>>
    /\ Len(searched_list) < Cardinality(IndexPairs(data_dict))

\* The list is ascending by artist, then by song.
Ascending(result) ==
    \A i, j \in 1..Len(result) :
        i < j => \/ StrLess(result[i][1], result[j][1])
                 \/ /\ result[i][1] = result[j][1]
                    /\ StrLess(result[i][2], result[j][2]) \/ result[i][2] = result[j][2]

Perms(n) == {f \in [1..n -> 1..n] : \A i, j \in 1..n : f[i] = f[j] => i = j}

Permuted(s) == {[i \in 1..Len(s) |-> s[f[i]]] : f \in Perms(Len(s))}

\* The indexes with the same triples as d: the artists in any order, each
\* artist's songs in any order.
Reorderings(d) ==
    LET n == Len(d)
        orders == UNION {Permuted(d[i].songs) : i \in 1..n}
        choices == {g \in [1..n -> orders] : \A i \in 1..n : g[i] \in Permuted(d[i].songs)}
    IN  UNION {{[i \in 1..n |-> [singer |-> d[f[i]].singer, songs |-> g[f[i]]]] :
                  g \in choices} : f \in Perms(n)}

SortedAndOrderFree(result, Q) ==
    /\ Ascending(result)
    /\ \A d2 \in Reorderings(data_dict) : search_songs(d2, heap, Q) = result

C2_State ==
    /\ pc = "average" =>
         \A Q \in Queries : SortedAndOrderFree(search_songs(data_dict, heap, Q), Q)
    /\ invoked => SortedAndOrderFree(searched_list, user_set)

C2_Step == (invoked /\ invoked' /\ user_set' = user_set) => searched_list' = searched_list

\* C2: the list search_songs returns is ascending by artist and then by song;
\* every index with the same triples, whatever the insertion order, gives the
\* identical list; and a search repeated with the same words gives the
\* identical list.
C2_SortedWhateverTheInsertionOrder == []C2_State /\ [][C2_Step]_vars

\* A search whose matches were found in an order other than the sorted one.
C2_Witness ==
    /\ invoked
    /\ Len(searched_list) >= 2
    /\ MatchList(data_dict, heap, user_set) # searched_list

C3_State == invoked => user_set # {} /\ \A w \in user_set : validate_word(w, stopwords)

C3_Step ==
    pc = "prompt" =>
        LET words == ParseInput(user_input')
        IN  /\ user_set' = words
            /\ invoked' <=> (words # {} /\ \A w \in words : validate_word(w, stopwords))
            /\ (\E w \in words : ~isalpha(w) \/ w \in stopwords) =>
                  /\ ~invoked'
                  /\ message' = "error"
                  /\ pc' = "prompt"
                  /\ searched_list' = searched_list
            /\ words = {} =>
                  /\ ~invoked'
                  /\ pc' = "done"
                  /\ searched_list' = searched_list

\* C3: in the search loop search_songs is called only with a non-empty word
\* set whose every word passes validate_word; a line with a non-alphabetic
\* word or a stopword prints the error and prompts again without a search; a
\* line without words ends the loop without a search.
C3_SearchOnlyOnValidatedWords == []C3_State /\ [][C3_Step]_vars

\* The error message printed for a line with a stopword, after an earlier
\* search had found songs.
C3_Witness ==
    /\ pc = "prompt"
    /\ message = "error"
    /\ user_set \cap stopwords # {}
    /\ searched_list # <<>>

WellFormed(rows) == \A i \in 1..Len(rows) : Len(rows[i]) = 3

RowPairs(rows) == {<<rows[i][1], rows[i][2]>> : i \in 1..Len(rows)}

\* The last row carrying the pair p.
LastRowOf(rows, p) ==
    rows[CHOOSE i \in 1..Len(rows) :
            /\ <<rows[i][1], rows[i][2]>> = p
            /\ \A j \in (i + 1)..Len(rows) : <<rows[j][1], rows[j][2]>> # p]

RECURSIVE SongCount(_)
SongCount(d) == IF d = <<>> THEN 0 ELSE Len(Head(d).songs) + SongCount(Tail(d))

\* C4: after read_data has consumed well-formed rows, the keys of the index
\* are the distinct (artist, song) pairs of the rows, no key is held twice,
\* and each key's word set is the tokenized lyrics of the last row with that
\* pair and nothing more.
C4_LastRowWins ==
    WellFormed(rows_read) =>
        /\ IndexPairs(data_dict) = RowPairs(rows_read)
        /\ Len(data_dict) = Cardinality(Singers(data_dict))
        /\ SongCount(data_dict) = Cardinality(RowPairs(rows_read))
        /\ Triples(data_dict, heap) =
              {<<p[1], p[2], process_lyrics(LastRowOf(rows_read, p)[3], stopwords)>> :
                 p \in RowPairs(rows_read)}

\* read_data returned after a row replaced an earlier row of the same pair
\* that had a word the later row lacks.
C4_Witness ==
    /\ pc = "average"
    /\ WellFormed(rows_read)
    /\ \E i, j \in 1..Len(rows_read) :
          /\ i < j
          /\ rows_read[i][1] = rows_read[j][1]
          /\ rows_read[i][2] = rows_read[j][2]
          /\ ~(process_lyrics(rows_read[i][3], stopwords)
                 \subseteq process_lyrics(rows_read[j][3], stopwords))

\* C5: a data row whose column count is not three, fewer or more, ends the
\* build in an error: read_data returns no index.
C5_WrongColumnCountIsFatal ==
    (\E i \in 1..Len(rows_read) : Len(rows_read[i]) # 3) => pc = "IndexError"

\* C6: every word of every word set of the index is non-empty, alphabetic,
\* lowercase and no stopword; a token that is a stopword once its punctuation
\* is stripped is not in the set.
C6_WordSetsHoldValidWordsOnly ==
    /\ \A t \in Triples(data_dict, heap) : \A w \in t[3] :
          /\ w # <<>>
          /\ \A i \in 1..Len(w) : IsAlphaChar(w[i]) /\ LowerChar(w[i]) = w[i]
          /\ w \notin stopwords
    /\ \A i \in 1..Len(rows_read) :
          Len(rows_read[i]) >= 3 /\ pc # "IndexError" =>
             \A tok \in Range(split(rows_read[i][3])) :
                strip(lower(tok), Punctuation) \in stopwords =>
                   strip(lower(tok), Punctuation)
                      \notin WordsOf(data_dict, heap, <<rows_read[i][1], rows_read[i][2]>>)

\* A stored word set with a word, from lyrics that also hold a token that is
\* a stopword only once its punctuation is stripped.
C6_Witness ==
    /\ pc = "read"
    /\ data_dict # <<>>
    /\ heap[data_dict[1].songs[1].ref] # {}
    /\ \E tok \in Range(split(rows_read[1][3])) :
          /\ lower(tok) \notin stopwords
          /\ strip(lower(tok), Punctuation) \in stopwords

\* C7: every artist of the index has at least one song, the average is never
\* a division by zero, and each artist's average is the sum of the sizes of
\* the artist's word sets divided by the number of the artist's songs.
C7_AverageIsSumOverSongCount ==
    /\ \A a \in Singers(data_dict) : Cardinality(SongsOf(data_dict, a)) >= 1
    /\ \A i \in 1..Len(data_dict) : Len(data_dict[i].songs) >= 1
    /\ pc # "ZeroDivisionError"
    /\ pc \in {"vocab", "display", "prompt", "done"} =>
          /\ {average_words[i].singer : i \in 1..Len(average_words)} = Singers(data_dict)
          /\ \A i \in 1..Len(average_words) :
                LET a   == average_words[i].singer
                    avg == average_words[i].average
                IN  /\ avg.den > 0
                    /\ avg.num * Cardinality(SongsOf(data_dict, a))
                         = SumSizes(data_dict, heap, SongsOf(data_dict, a)) * avg.den

\* The averages computed for an index where an artist has a song with an
\* empty word set and an average that is no whole number.
C7_Witness ==
    /\ pc = "vocab"
    /\ \E a \in Singers(data_dict) :
          /\ \E p \in SongsOf(data_dict, a) : WordsOf(data_dict, heap, p) = {}
          /\ SumSizes(data_dict, heap, SongsOf(data_dict, a))
               % Cardinality(SongsOf(data_dict, a)) # 0

TrueSongs(a) == Cardinality(SongsOf(data_dict, a))
TrueTotal(a) == SumSizes(data_dict, heap, SongsOf(data_dict, a))
TrueVocab(a) ==
    Cardinality(UNION {WordsOf(data_dict, heap, p) : p \in SongsOf(data_dict, a)})
InputPos(a) == CHOOSE i \in 1..Len(data_dict) : data_dict[i].singer = a

\* a ranks strictly before b: higher average, or the same average and more songs.
Better(a, b) ==
    \/ TrueTotal(a) * TrueSongs(b) > TrueTotal(b) * TrueSongs(a)
    \/ /\ TrueTotal(a) * TrueSongs(b) = TrueTotal(b) * TrueSongs(a)
       /\ TrueSongs(a) > TrueSongs(b)

Tied(a, b) ==
    /\ TrueTotal(a) * TrueSongs(b) = TrueTotal(b) * TrueSongs(a)
    /\ TrueSongs(a) = TrueSongs(b)

\* a is to be listed before b.
RanksBefore(a, b) == Better(a, b) \/ (Tied(a, b) /\ InputPos(a) < InputPos(b))

Column(title) == CHOOSE i \in 1..Len(TableHeader) : TableHeader[i] = title

\* C8: the table lists at most 10 artists, the first of the ranking by
\* average word count descending, then song count descending, then position
\* in the input list; each row has the artist's vocabulary size under
\* "Vocabulary Size" and its song count under "Number of Songs".
C8_RankingTable ==
    pc = "prompt" =>
        /\ Len(table) <= TopN
        /\ Len(table) = IF Len(data_dict) < TopN THEN Len(data_dict) ELSE TopN
        /\ \A i, j \in 1..Len(table) : i < j => RanksBefore(table[i][1], table[j][1])
        /\ \A a \in Singers(data_dict) \ {table[i][1] : i \in 1..Len(table)} :
              \A i \in 1..Len(table) : RanksBefore(table[i][1], a)
        /\ \A i \in 1..Len(table) :
              /\ table[i][Column("Singer")] \in Singers(data_dict)
              /\ table[i][Column("Vocabulary Size")] = TrueVocab(table[i][1])
              /\ table[i][Column("Number of Songs")] = TrueSongs(table[i][1])

\* A table cut to 10 of 11 artists, with two artists tied on both keys, two
\* tied on the average only and listed against their input order, and two
\* with different averages.
C8_Witness ==
    /\ pc = "prompt"
    /\ Len(data_dict) = TopN + 1
    /\ Len(table) = TopN
    /\ \E i, j \in 1..Len(table) : i < j /\ Tied(table[i][1], table[j][1])
    /\ \E i, j \in 1..Len(table) :
          /\ i < j
          /\ TrueSongs(table[i][1]) > TrueSongs(table[j][1])
          /\ InputPos(table[i][1]) > InputPos(table[j][1])
    /\ \E i, j \in 1..Len(table) :
          TrueTotal(table[i][1]) * TrueSongs(table[j][1])
            > TrueTotal(table[j][1]) * TrueSongs(table[i][1])
    /\ \E i \in 1..Len(table) : TrueVocab(table[i][1]) # TrueSongs(table[i][1])

\* The addresses of the word sets the index holds, and of the vocabulary sets.
IndexRefs(d) == UNION {{d[i].songs[j].ref : j \in 1..Len(d[i].songs)} : i \in 1..Len(d)}
VocabRefs == {distinct_vocab[i].ref : i \in 1..Len(distinct_vocab)}

C9_State ==
    /\ VocabRefs \cap IndexRefs(data_dict) = {}
    /\ Cardinality(VocabRefs) = Len(distinct_vocab)

C9_Step ==
    Returned =>
        /\ data_dict' = data_dict
        /\ \A r \in IndexRefs(data_dict) : heap'[r] = heap[r]

\* C9: once read_data has returned, no step of main changes an artist key, a
\* song key or a word set of the index, and the vocabulary sets are set
\* objects of their own, none of them a set of the index.
C9_IndexIsReadOnlyAfterBuild == []C9_State /\ [][C9_Step]_vars

\* A search made after the statistics, on an index where an artist has two
\* songs with different word sets.
C9_Witness ==
    /\ pc = "prompt"
    /\ invoked
    /\ distinct_vocab # <<>>
    /\ \E p, q \in IndexPairs(data_dict) :
          /\ p[1] = q[1]
          /\ WordsOf(data_dict, heap, p) # WordsOf(data_dict, heap, q)

\* C10: tokenizing the joined words of process_lyrics(text, S) again with S
\* gives process_lyrics(text, S).
C10_TokenizeIsIdempotent ==
    pc = "retok" => retok = process_lyrics(rows_read[1][3], stopwords)

\* Two words tokenized again, from a text that is not their joined form.
C10_Witness ==
    /\ pc = "retok"
    /\ Cardinality(retok) = 2
    /\ \A order \in Orderings(retok) : join(order) # rows_read[1][3]

====
